---- MODULE Spec2Model ----
(***************************************************************************)
(* A model of orogene's lockfile layer                                     *)
(* (crates/node-maintainer/src/lockfile.rs): the Lockfile / LockfileNode   *)
(* data model, the KDL codec (to_kdl / from_kdl), the npm package-lock     *)
(* import (from_npm) and LockfileNode::to_package.                         *)
(*                                                                         *)
(* Strings are sequences of one-character strings, so that the code's      *)
(* joins, splits, case folding and sorts are computed, not assumed.        *)
(* Option<T> is a sequence of length 0 (None) or 1 (Some).                 *)
(* An IndexMap is a sequence of <<key, value>> pairs in insertion order.   *)
(***************************************************************************)
EXTENDS Integers, Sequences, FiniteSets, TLC

(***************************************************************************)
(* Bounds of the model.                                                    *)
(***************************************************************************)
\* Largest number of top-level nodes in a KDL input document.
MaxNodes == 3
\* Largest number of members in the `packages` object of an npm input.
MaxEntries == 3
\* Largest number of codec operations applied in a row to one input.
MaxSteps == 4

(***************************************************************************)
(* Strings.                                                                *)
(***************************************************************************)
None == <<>>
Some(x) == <<x>>
IsSome(o) == Len(o) = 1
IsNone(o) == Len(o) = 0
Unwrap(o) == o[1]

\* The characters the model uses, in ascending ASCII order.
AsciiOrder ==
    <<" ", "#", "*", "+", "-", ".", "/", "0", "1", "2", "3", "4", "5", "6",
      "7", "8", "9", ":", "=", "@", "A", "B", "C", "X", "^", "_",
      "a", "b", "c", "d", "e", "f", "g", "h", "i", "j", "k", "l", "m", "n",
      "o", "p", "q", "r", "s", "t", "u", "v", "w", "x", "y", "z">>

\* The rank of a character: its byte value up to a monotone renumbering.
CharCode(c) == CHOOSE i \in 1..Len(AsciiOrder) : AsciiOrder[i] = c

\* char::to_ascii_lowercase
ToAsciiLowercase(c) ==
    CASE c = "A" -> "a"
      [] c = "B" -> "b"
      [] c = "C" -> "c"
      [] c = "X" -> "x"
      [] OTHER -> c

Lower(s) == [i \in 1..Len(s) |-> ToAsciiLowercase(s[i])]

\* <str as Ord>::cmp(a, b) = Less: lexicographic on bytes.
RECURSIVE StrLess(_, _)
StrLess(a, b) ==
    IF Len(b) = 0 THEN FALSE
    ELSE IF Len(a) = 0 THEN TRUE
    ELSE IF a[1] = b[1] THEN StrLess(Tail(a), Tail(b))
    ELSE CharCode(a[1]) < CharCode(b[1])

\* UniCase<String>: equality and order on the case-folded text; the original
\* text is kept for output.
UniCaseEq(a, b) == Lower(a) = Lower(b)
UniCaseLess(a, b) == StrLess(Lower(a), Lower(b))

StartsWith(s, p) == Len(s) >= Len(p) /\ SubSeq(s, 1, Len(p)) = p

\* [String]::join(sep)
RECURSIVE Join(_, _)
Join(parts, sep) ==
    IF Len(parts) = 0 THEN <<>>
    ELSE IF Len(parts) = 1 THEN parts[1]
    ELSE parts[1] \o sep \o Join(Tail(parts), sep)

\* str::split(sep), collected: the pieces between non-overlapping matches,
\* found left to right; always at least one piece.
RECURSIVE SplitFrom(_, _, _)
SplitFrom(s, sep, cur) ==
    IF Len(s) = 0 THEN <<cur>>
    ELSE IF StartsWith(s, sep)
         THEN <<cur>> \o SplitFrom(SubSeq(s, Len(sep) + 1, Len(s)), sep, <<>>)
         ELSE SplitFrom(Tail(s), sep, Append(cur, s[1]))

Split(s, sep) == SplitFrom(s, sep, <<>>)

\* Iterator::skip(n), collected.
Skip(s, n) == IF Len(s) <= n THEN <<>> ELSE SubSeq(s, n + 1, Len(s))

\* Iterator::filter, collected.
Filter(s, Keep(_)) ==
    LET f[i \in 0..Len(s)] ==
            IF i = 0 THEN <<>>
            ELSE IF Keep(s[i]) THEN Append(f[i - 1], s[i]) ELSE f[i - 1]
    IN  f[Len(s)]

\* Iterator::map, collected.
Map(s, F(_)) == [i \in 1..Len(s) |-> F(s[i])]

\* One step of a stable insertion sort: x goes after the last element of the
\* sorted prefix that is not greater than x.
InsertSorted(sorted, x, Less(_, _)) ==
    LET notGreater == {i \in 1..Len(sorted) : ~Less(x, sorted[i])}
        j == IF notGreater = {} THEN 0
             ELSE CHOOSE i \in notGreater : \A k \in notGreater : k <= i
    IN  SubSeq(sorted, 1, j) \o <<x>> \o SubSeq(sorted, j + 1, Len(sorted))

\* slice::sort_by / sort_by_key: a stable sort.
SortBy(s, Less(_, _)) ==
    LET f[i \in 0..Len(s)] ==
            IF i = 0 THEN <<>> ELSE InsertSorted(f[i - 1], s[i], Less)
    IN  f[Len(s)]

(***************************************************************************)
(* Integers wider than the checker's: <<k, d>> stands for k * 2^63 + d,    *)
(* with d small, so the 64-bit boundaries are exact.                       *)
(***************************************************************************)
Num(k, d) == <<k, d>>

\* the value is in i64's range -2^63 .. 2^63 - 1
FitsI64(n) == \/ n[1] = -1 /\ n[2] >= 0
              \/ n[1] = 0
              \/ n[1] = 1 /\ n[2] < 0

\* the value is in u64's range 0 .. 2^64 - 1
FitsU64(n) == \/ n[1] = 0 /\ n[2] >= 0
              \/ n[1] = 1
              \/ n[1] = 2 /\ n[2] < 0

\* `v as i64` on a u64: the same 64 bits read as two's complement.
U64AsI64(n) == IF FitsI64(n) THEN n ELSE Num(n[1] - 2, n[2])

\* i64 -> u64 by TryInto: fails on a negative value.
I64TryIntoU64(n) ==
    IF FitsU64(n) THEN [ok |-> TRUE, val |-> n] ELSE [ok |-> FALSE, val |-> n]

\* usize -> u64 by TryInto: usize is at most 64 bits wide, so it never fails.
UsizeTryIntoU64(n) == [ok |-> TRUE, val |-> n]

(***************************************************************************)
(* IndexMap<K, V>: pairs in insertion order, keys unique under KeyEq.      *)
(***************************************************************************)
\* IndexMap::get
MapGet(m, k, KeyEq(_, _)) ==
    LET hits == {i \in 1..Len(m) : KeyEq(m[i][1], k)}
    IN  IF hits = {} THEN None
        ELSE Some(m[CHOOSE i \in hits : \A j \in hits : i <= j][2])

\* IndexMap::insert: an equal key keeps its place and its stored key, and
\* takes the new value; a new key goes last.
MapInsert(m, k, v, KeyEq(_, _)) ==
    IF \E i \in 1..Len(m) : KeyEq(m[i][1], k)
    THEN [i \in 1..Len(m) |->
            IF KeyEq(m[i][1], k) THEN <<m[i][1], v>> ELSE m[i]]
    ELSE Append(m, <<k, v>>)

\* FromIterator for IndexMap: insert every pair in turn.
MapCollect(pairs, KeyEq(_, _)) ==
    LET f[i \in 0..Len(pairs)] ==
            IF i = 0 THEN <<>>
            ELSE MapInsert(f[i - 1], pairs[i][1], pairs[i][2], KeyEq)
    IN  f[Len(pairs)]

\* PartialEq for IndexMap: same length, and every key of one maps to an
\* equal value in the other; the order is not compared.
MapEq(a, b, KeyEq(_, _), ValEq(_, _)) ==
    /\ Len(a) = Len(b)
    /\ \A i \in 1..Len(a) :
          \E j \in 1..Len(b) : KeyEq(a[i][1], b[j][1]) /\ ValEq(a[i][2], b[j][2])

StrEq(a, b) == a = b

(***************************************************************************)
(* node_semver::Version and ssri::Integrity, as far as the lockfile uses   *)
(* them: FromStr and Display.                                              *)
(***************************************************************************)
Digits == {"0", "1", "2", "3", "4", "5", "6", "7", "8", "9"}
DigitValue(c) == CharCode(c) - CharCode("0")
DigitChar(n) == AsciiOrder[CharCode("0") + n]

\* Version::from_str on one-digit components: an optional "v" or "=" prefix,
\* then major.minor.patch. The value is <<major, minor, patch>>.
VersionParse(s) ==
    LET t == IF Len(s) > 0 /\ s[1] \in {"v", "="} THEN Tail(s) ELSE s
    IN  IF /\ Len(t) = 5
           /\ t[1] \in Digits /\ t[3] \in Digits /\ t[5] \in Digits
           /\ t[2] = "." /\ t[4] = "."
        THEN [ok |-> TRUE,
              val |-> <<DigitValue(t[1]), DigitValue(t[3]), DigitValue(t[5])>>]
        ELSE [ok |-> FALSE, val |-> <<>>]

\* Display for Version
VersionToString(v) ==
    <<DigitChar(v[1]), ".", DigitChar(v[2]), ".", DigitChar(v[3])>>

\* ssri::Algorithm in declaration order, strongest first.
Sha512 == <<"s", "h", "a", "5", "1", "2">>
Sha1 == <<"s", "h", "a", "1">>
AlgorithmRank(a) == IF a = Sha512 THEN 0 ELSE 1

\* derive(Ord) for ssri::Hash: by algorithm, then by digest.
HashLess(x, y) ==
    \/ AlgorithmRank(x[1]) < AlgorithmRank(y[1])
    \/ AlgorithmRank(x[1]) = AlgorithmRank(y[1]) /\ StrLess(x[2], y[2])

NonEmpty(s) == Len(s) > 0

\* Integrity::from_str: whitespace-separated "<algorithm>-<digest>" hashes,
\* each parsed, then sorted. The value is a sequence of <<algorithm, digest>>.
IntegrityParse(s) ==
    LET pieces == Filter(Split(s, <<" ">>), NonEmpty)
        parts(p) == Split(p, <<"-">>)
        good(p) == parts(p)[1] \in {Sha512, Sha1} /\ Len(parts(p)) >= 2
        hash(p) == <<parts(p)[1], parts(p)[2]>>
    IN  IF \A i \in 1..Len(pieces) : good(pieces[i])
        THEN [ok |-> TRUE, val |-> SortBy(Map(pieces, hash), HashLess)]
        ELSE [ok |-> FALSE, val |-> <<>>]

\* Display for Integrity
HashToString(h) == h[1] \o <<"-">> \o h[2]
IntegrityToString(i) == Join(Map(i, HashToString), <<" ">>)

(***************************************************************************)
(* KDL documents (the kdl crate's KdlDocument / KdlNode / KdlEntry /        *)
(* KdlValue). A document is a sequence of nodes; a node has a name,        *)
(* entries (arguments and properties, in order) and a children document.   *)
(***************************************************************************)
S_pkg == <<"p", "k", "g">>
S_root == <<"r", "o", "o", "t">>
S_lockfile_version == <<"l", "o", "c", "k", "f", "i", "l", "e", "-", "v", "e", "r", "s", "i", "o", "n">>
S_version == <<"v", "e", "r", "s", "i", "o", "n">>
S_resolved == <<"r", "e", "s", "o", "l", "v", "e", "d">>
S_integrity == <<"i", "n", "t", "e", "g", "r", "i", "t", "y">>
S_dependencies == <<"d", "e", "p", "e", "n", "d", "e", "n", "c", "i", "e", "s">>
S_dev_dependencies == <<"d", "e", "v", "-", "d", "e", "p", "e", "n", "d", "e", "n", "c", "i", "e", "s">>
S_peer_dependencies == <<"p", "e", "e", "r", "-", "d", "e", "p", "e", "n", "d", "e", "n", "c", "i", "e", "s">>
S_optional_dependencies == <<"o", "p", "t", "i", "o", "n", "a", "l", "-", "d", "e", "p", "e", "n", "d", "e", "n", "c", "i", "e", "s">>
S_star == <<"*">>
NodeModulesSep == <<"/", "n", "o", "d", "e", "_", "m", "o", "d", "u", "l", "e", "s", "/">>

KStr(s) == [t |-> "string", s |-> s, i |-> Num(0, 0)]
KInt(n) == [t |-> "int", s |-> <<>>, i |-> n]
\* An argument has no name; a property has one.
Arg(v) == [key |-> None, value |-> v]
Prop(k, v) == [key |-> Some(k), value |-> v]
KdlNodeNew(name) == [name |-> name, entries |-> <<>>, children |-> <<>>]
\* KdlNode::push
Push(node, v) == [node EXCEPT !.entries = Append(@, Arg(v))]
\* node.ensure_children().nodes_mut().push(child)
PushChild(node, child) == [node EXCEPT !.children = Append(@, child)]
Leaf(name, v) == Push(KdlNodeNew(name), v)

\* KdlValue::as_string, KdlValue::as_i64
AsString(v) == IF v.t = "string" THEN Some(v.s) ELSE None
AsI64(v) == IF v.t = "int" THEN Some(v.i) ELSE None

IsArg(e) == IsNone(e.key)
\* KdlNode::get(0): the first argument.
NodeGet0(node) ==
    LET args == Filter(node.entries, IsArg)
    IN  IF Len(args) = 0 THEN None ELSE Some(args[1].value)

\* KdlDocument::get: the first node of that name.
DocGet(doc, name) ==
    LET hits == {i \in 1..Len(doc) : doc[i].name = name}
    IN  IF hits = {} THEN None
        ELSE Some(doc[CHOOSE i \in hits : \A j \in hits : i <= j])

\* KdlDocument::get_arg: the first argument of the first node of that name.
DocGetArg(doc, name) ==
    IF IsNone(DocGet(doc, name)) THEN None ELSE NodeGet0(Unwrap(DocGet(doc, name)))

\* Option::and_then with an Option-valued operator.
AndThen(o, F(_)) == IF IsNone(o) THEN None ELSE F(Unwrap(o))

(***************************************************************************)
(* Results: [ok, val, err]; val is meaningful when ok, err when not.       *)
(***************************************************************************)
Ok(v) == [ok |-> TRUE, val |-> Some(v), err |-> "none"]
Err(e) == [ok |-> FALSE, val |-> None, err |-> e]
Val(r) == Unwrap(r.val)

(***************************************************************************)
(* LockfileNode and Lockfile.                                              *)
(***************************************************************************)
\* struct LockfileNode
LockfileNode(name, is_root, path, resolved, version, integrity, deps, dev, peer, opt) ==
    [name |-> name, is_root |-> is_root, path |-> path, resolved |-> resolved,
     version |-> version, integrity |-> integrity,
     dependencies |-> deps, dev_dependencies |-> dev,
     peer_dependencies |-> peer, optional_dependencies |-> opt]

\* struct Lockfile
Lockfile(version, root, packages) ==
    [version |-> version, root |-> root, packages |-> packages]

\* derive(PartialEq) for LockfileNode: names and path segments are UniCase,
\* the dependency maps are IndexMaps.
PathEq(p, q) ==
    Len(p) = Len(q) /\ \A i \in 1..Len(p) : UniCaseEq(p[i], q[i])

DepsEq(a, b) == MapEq(a, b, StrEq, StrEq)

LockfileNodeEq(a, b) ==
    /\ UniCaseEq(a.name, b.name)
    /\ a.is_root = b.is_root
    /\ PathEq(a.path, b.path)
    /\ a.resolved = b.resolved
    /\ a.version = b.version
    /\ a.integrity = b.integrity
    /\ DepsEq(a.dependencies, b.dependencies)
    /\ DepsEq(a.dev_dependencies, b.dev_dependencies)
    /\ DepsEq(a.peer_dependencies, b.peer_dependencies)
    /\ DepsEq(a.optional_dependencies, b.optional_dependencies)

\* derive(PartialEq) for Lockfile
LockfileEq(a, b) ==
    /\ a.version = b.version
    /\ LockfileNodeEq(a.root, b.root)
    /\ MapEq(a.packages, b.packages, UniCaseEq, LockfileNodeEq)

\* The map key of a node: its path segments joined with "/node_modules/".
PathStr(node) == Join(node.path, NodeModulesSep)

\* LockfileNode::from_kdl_deps: the children of the first block named
\* type_name, each a dependency name with its first string argument, "*"
\* when there is none.
from_kdl_deps(children, type_name) ==
    LET block == DocGet(children, type_name)
        spec(dep) ==
            LET a == AndThen(NodeGet0(dep), AsString)
            IN  IF IsNone(a) THEN S_star ELSE Unwrap(a)
        pair(dep) == <<dep.name, spec(dep)>>
    IN  IF IsNone(block) THEN <<>>
        ELSE MapCollect(Map(Unwrap(block).children, pair), StrEq)

IsStringArg(e) == e.value.t = "string" /\ IsNone(e.key)
EntryString(e) == e.value.s

\* LockfileNode::from_kdl
LockfileNode_from_kdl(node, is_root) ==
    LET children == node.children
        path == Map(Filter(node.entries, IsStringArg), EntryString)
        integrityArg == AndThen(DocGetArg(children, S_integrity), AsString)
        versionArg == AndThen(DocGetArg(children, S_version), AsString)
        resolved == AndThen(DocGetArg(children, S_resolved), AsString)
        integrity == IF IsNone(integrityArg) THEN [ok |-> TRUE, val |-> <<>>]
                     ELSE IntegrityParse(Unwrap(integrityArg))
        version == IF IsNone(versionArg) THEN [ok |-> TRUE, val |-> <<>>]
                   ELSE VersionParse(Unwrap(versionArg))
    IN  IF ~is_root /\ Len(path) = 0 THEN Err("KdlLockMissingName")
        ELSE IF ~integrity.ok THEN Err("KdlLockfileIntegrityParseError")
        ELSE IF ~version.ok THEN Err("SemverParseError")
        ELSE Ok(LockfileNode(
                IF is_root THEN <<>> ELSE path[Len(path)],
                is_root,
                path,
                resolved,
                IF IsNone(versionArg) THEN None ELSE Some(version.val),
                IF IsNone(integrityArg) THEN None ELSE Some(integrity.val),
                from_kdl_deps(children, S_dependencies),
                from_kdl_deps(children, S_dev_dependencies),
                from_kdl_deps(children, S_peer_dependencies),
                from_kdl_deps(children, S_optional_dependencies)))

\* A sequence of Results collected into a Result of a sequence: the first
\* error in order, or every value.
FirstErr(rs) ==
    LET bad == {i \in 1..Len(rs) : ~rs[i].ok}
    IN  IF bad = {} THEN "none"
        ELSE rs[CHOOSE i \in bad : \A j \in bad : i <= j].err

\* A keying of the parsed entries by their name instead of their joined path.
KeyedNode_ByName(r) == <<Val(r).name, Val(r)>>

KeyedNode(r) == <<PathStr(Val(r)), Val(r)>>

\* A collect that keeps the first node stored under a key.
CollectPackagesKeepFirst(results) ==
    LET pairs == Map(results, KeyedNode)
        f[i \in 0..Len(pairs)] ==
            IF i = 0 THEN <<>>
            ELSE IF \E j \in 1..Len(f[i - 1]) : UniCaseEq(f[i - 1][j][1], pairs[i][1])
                 THEN f[i - 1]
                 ELSE Append(f[i - 1], pairs[i])
    IN  f[Len(pairs)]

\* .map(|node| Ok((UniCase::from(path_str), node))).collect::<Result<IndexMap<..>, _>>()
\* on nodes that all parsed.
CollectPackages(results) == MapCollect(Map(results, KeyedNode), UniCaseEq)

IsPkg(node) == node.name = S_pkg
ParsePkg(node) == LockfileNode_from_kdl(node, FALSE)

\* A from_kdl that takes a default root when the document has none.
Lockfile_from_kdl_DefaultRoot(kdl) ==
    LET results == Map(Filter(kdl, IsPkg), ParsePkg)
        versionArg == AndThen(DocGetArg(kdl, S_lockfile_version), AsI64)
        rootNode == DocGet(kdl, S_root)
        root == IF IsNone(rootNode) THEN LockfileNode_from_kdl(KdlNodeNew(S_root), TRUE)
                ELSE LockfileNode_from_kdl(Unwrap(rootNode), TRUE)
    IN  IF FirstErr(results) # "none" THEN Err(FirstErr(results))
        ELSE IF IsSome(versionArg) /\ ~I64TryIntoU64(Unwrap(versionArg)).ok
             THEN Err("InvalidLockfileVersion")
        ELSE IF ~root.ok THEN Err(root.err)
        ELSE Ok(Lockfile(IF IsNone(versionArg) THEN Num(0, 1) ELSE Unwrap(versionArg),
                         Val(root), CollectPackages(results)))

\* Lockfile::from_kdl (its inner function): the pkg nodes first, then the
\* version, then the root.
Lockfile_from_kdl(kdl) ==
    LET results == Map(Filter(kdl, IsPkg), ParsePkg)
        versionArg == AndThen(DocGetArg(kdl, S_lockfile_version), AsI64)
        version == IF IsNone(versionArg) THEN [ok |-> TRUE, val |-> Num(0, 1)]
                   ELSE I64TryIntoU64(Unwrap(versionArg))
        rootNode == DocGet(kdl, S_root)
        root == IF IsNone(rootNode) THEN Err("KdlLockMissingRoot")
                ELSE LockfileNode_from_kdl(Unwrap(rootNode), TRUE)
    IN  IF FirstErr(results) # "none" THEN Err(FirstErr(results))
        ELSE IF ~version.ok THEN Err("InvalidLockfileVersion")
        ELSE IF ~root.ok THEN Err(root.err)
        ELSE Ok(Lockfile(version.val, Val(root), CollectPackages(results)))

NameLess(a, b) == StrLess(a.name, b.name)

DepChild(d) == Leaf(d[1], KStr(d[2]))
DepChildBare(d) == KdlNodeNew(d[1])

\* A to_kdl_deps that does not push the requirement onto a dependency's node.
to_kdl_deps_NoRequirement(type_name, deps) ==
    [KdlNodeNew(type_name) EXCEPT !.children = SortBy(Map(deps, DepChildBare), NameLess)]

\* LockfileNode::to_kdl_deps: one child per dependency, then sorted by name.
to_kdl_deps(type_name, deps) ==
    [KdlNodeNew(type_name) EXCEPT !.children = SortBy(Map(deps, DepChild), NameLess)]

\* LockfileNode::to_kdl
LockfileNode_to_kdl(n) ==
    LET n0 == KdlNodeNew(IF n.is_root THEN S_root ELSE S_pkg)
        withPath[i \in 0..Len(n.path)] ==
            IF i = 0 THEN n0 ELSE Push(withPath[i - 1], KStr(n.path[i]))
        n1 == withPath[Len(n.path)]
        n2 == IF IsSome(n.version)
              THEN PushChild(n1, Leaf(S_version, KStr(VersionToString(Unwrap(n.version)))))
              ELSE n1
        n3 == IF IsSome(n.resolved) /\ ~n.is_root
              THEN PushChild(n2, Leaf(S_resolved, KStr(Unwrap(n.resolved))))
              ELSE n2
        n4 == IF IsSome(n.resolved) /\ ~n.is_root /\ IsSome(n.integrity)
              THEN PushChild(n3, Leaf(S_integrity,
                                      KStr(IntegrityToString(Unwrap(n.integrity)))))
              ELSE n3
        n5 == IF Len(n.dependencies) > 0
              THEN PushChild(n4, to_kdl_deps(S_dependencies, n.dependencies))
              ELSE n4
        n6 == IF Len(n.dev_dependencies) > 0
              THEN PushChild(n5, to_kdl_deps(S_dev_dependencies, n.dev_dependencies))
              ELSE n5
        n7 == IF Len(n.peer_dependencies) > 0
              THEN PushChild(n6, to_kdl_deps(S_peer_dependencies, n.peer_dependencies))
              ELSE n6
    IN  IF Len(n.optional_dependencies) > 0
        THEN PushChild(n7, to_kdl_deps(S_optional_dependencies, n.optional_dependencies))
        ELSE n7

KeyLess(a, b) == UniCaseLess(a[1], b[1])
PairToKdl(p) == LockfileNode_to_kdl(p[2])

\* A to_kdl that emits the packages in insertion order.
Lockfile_to_kdl_Unsorted(l) ==
    <<Leaf(S_lockfile_version, KInt(U64AsI64(l.version))), LockfileNode_to_kdl(l.root)>>
    \o Map(l.packages, PairToKdl)

\* Lockfile::to_kdl: the version node, the root, then the packages sorted by
\* their map key.
Lockfile_to_kdl(l) ==
    <<Leaf(S_lockfile_version, KInt(U64AsI64(l.version))), LockfileNode_to_kdl(l.root)>>
    \o Map(SortBy(l.packages, KeyLess), PairToKdl)

(***************************************************************************)
(* The npm package-lock import.                                            *)
(***************************************************************************)
\* struct NpmPackageLockEntry
NpmPackageLockEntry(name, version, resolved, integrity, deps, dev, opt, peer) ==
    [name |-> name, version |-> version, resolved |-> resolved,
     integrity |-> integrity, dependencies |-> deps, dev_dependencies |-> dev,
     optional_dependencies |-> opt, peer_dependencies |-> peer]

\* A from_npm that names an entry without a `name` field by the first segment
\* of its path.
LockfileNode_from_npm_FirstSegment(path_str, npm) ==
    LET path == Skip(Split(<<"/">> \o path_str, NodeModulesSep), 1)
        name == IF Len(path_str) = 0 THEN Some(<<>>)
                ELSE IF IsSome(npm.name) THEN npm.name
                ELSE IF Len(path) > 0 THEN Some(path[1])
                ELSE None
        integrity == IF IsNone(npm.integrity) THEN [ok |-> TRUE, val |-> <<>>]
                     ELSE IntegrityParse(Unwrap(npm.integrity))
        version == IF IsNone(npm.version) THEN [ok |-> TRUE, val |-> <<>>]
                   ELSE VersionParse(Unwrap(npm.version))
    IN  IF IsNone(name) THEN Err("NpmLockMissingName")
        ELSE IF ~integrity.ok THEN Err("NpmLockfileIntegrityParseError")
        ELSE IF ~version.ok THEN Err("SemverParseError")
        ELSE Ok(LockfileNode(
                Unwrap(name),
                Len(path) = 0,
                path,
                npm.resolved,
                IF IsNone(npm.version) THEN None ELSE Some(version.val),
                IF IsNone(npm.integrity) THEN None ELSE Some(integrity.val),
                npm.dependencies,
                npm.dev_dependencies,
                npm.peer_dependencies,
                npm.optional_dependencies))

\* LockfileNode::from_npm
LockfileNode_from_npm(path_str, npm) ==
    LET path == Skip(Split(<<"/">> \o path_str, NodeModulesSep), 1)
        name == IF Len(path_str) = 0 THEN Some(<<>>)
                ELSE IF IsSome(npm.name) THEN npm.name
                ELSE IF Len(path) > 0 THEN Some(path[Len(path)])
                ELSE None
        integrity == IF IsNone(npm.integrity) THEN [ok |-> TRUE, val |-> <<>>]
                     ELSE IntegrityParse(Unwrap(npm.integrity))
        version == IF IsNone(npm.version) THEN [ok |-> TRUE, val |-> <<>>]
                   ELSE VersionParse(Unwrap(npm.version))
    IN  IF IsNone(name) THEN Err("NpmLockMissingName")
        ELSE IF ~integrity.ok THEN Err("NpmLockfileIntegrityParseError")
        ELSE IF ~version.ok THEN Err("SemverParseError")
        ELSE Ok(LockfileNode(
                Unwrap(name),
                Len(path) = 0,
                path,
                npm.resolved,
                IF IsNone(npm.version) THEN None ELSE Some(version.val),
                IF IsNone(npm.integrity) THEN None ELSE Some(integrity.val),
                npm.dependencies,
                npm.dev_dependencies,
                npm.peer_dependencies,
                npm.optional_dependencies))

\* serde_json::from_str::<NpmPackageLock>: lockfileVersion must be a usize
\* (64 bits here); the members of `packages` are inserted into an
\* IndexMap<String, _> in document order.
Deserialize(json) ==
    IF IsSome(json.lockfileVersion) /\ ~FitsU64(Unwrap(json.lockfileVersion))
    THEN Err("SerdeJsonError")
    ELSE Ok([lockfile_version |-> json.lockfileVersion,
             packages |-> MapCollect(json.packages, StrEq)])

ParseNpmEntry(p) == LockfileNode_from_npm(p[1], p[2])

\* Lockfile::from_npm: deserialize, then (inner) every member of `packages`,
\* then the version, then the root.
Lockfile_from_npm(json) ==
    LET de == Deserialize(json)
        npm == Val(de)
        results == Map(npm.packages, ParseNpmEntry)
        version == IF IsNone(npm.lockfile_version)
                   THEN [ok |-> TRUE, val |-> Num(0, 3)]
                   ELSE UsizeTryIntoU64(Unwrap(npm.lockfile_version))
        rootEntry == MapGet(npm.packages, <<>>, StrEq)
        root == IF IsNone(rootEntry) THEN Err("NpmLockMissingRoot")
                ELSE LockfileNode_from_npm(<<>>, Unwrap(rootEntry))
    IN  IF ~de.ok THEN Err(de.err)
        ELSE IF FirstErr(results) # "none" THEN Err(FirstErr(results))
        ELSE IF ~version.ok THEN Err("InvalidLockfileVersion")
        ELSE IF ~root.ok THEN Err(root.err)
        ELSE Ok(Lockfile(version.val, Val(root), CollectPackages(results)))

(***************************************************************************)
(* Inputs: the text a user or another tool can hand to the two parsers.    *)
(***************************************************************************)
SeqsUpTo(S, n) == UNION {[1..k -> S] : k \in 0..n}

T_a == <<"a">>
T_A == <<"A">>
T_b == <<"b">>
T_c == <<"c">>
T_x == <<"x">>
T_1_0_0 == <<"1", ".", "0", ".", "0">>
T_v1_0_0 == <<"v", "1", ".", "0", ".", "0">>
T_2_1_0 == <<"2", ".", "1", ".", "0">>
T_junk == <<"j", "u", "n", "k">>
T_caret1 == <<"^", "1">>
T_url_a == <<"h", "t", "t", "p", "s", ":", "/", "/", "r", "/", "a">>
T_url_b == <<"h", "t", "t", "p", "s", ":", "/", "/", "r", "/", "b">>
T_sha512_A == <<"s", "h", "a", "5", "1", "2", "-", "A">>
T_sha1_B_sha512_A == <<"s", "h", "a", "1", "-", "B", " ", "s", "h", "a", "5", "1", "2", "-", "A">>

\* lockfile-version 2
K_version2 == Leaf(S_lockfile_version, KInt(Num(0, 2)))
\* lockfile-version -1
K_versionNeg == Leaf(S_lockfile_version, KInt(Num(0, -1)))
\* root
K_root == KdlNodeNew(S_root)
\* root "x"
K_rootArg == Leaf(S_root, KStr(T_x))
\* root { version "v1.0.0"; resolved "https://r/a"; dependencies { b "^1"; a "*" } }
K_rootFull ==
    [name |-> S_root,
     entries |-> <<>>,
     children |-> <<Leaf(S_version, KStr(T_v1_0_0)),
                    Leaf(S_resolved, KStr(T_url_a)),
                    [name |-> S_dependencies, entries |-> <<>>,
                     children |-> <<Leaf(T_b, KStr(T_caret1)), Leaf(T_a, KStr(S_star))>>]>>]
\* pkg "b" { version "1.0.0"; resolved "https://r/b"; integrity "sha1-B sha512-A";
\*           dependencies { b "^1"; a } }
K_pkgB ==
    [name |-> S_pkg,
     entries |-> <<Arg(KStr(T_b))>>,
     children |-> <<Leaf(S_version, KStr(T_1_0_0)),
                    Leaf(S_resolved, KStr(T_url_b)),
                    Leaf(S_integrity, KStr(T_sha1_B_sha512_A)),
                    [name |-> S_dependencies, entries |-> <<>>,
                     children |-> <<Leaf(T_b, KStr(T_caret1)), KdlNodeNew(T_a)>>]>>]
\* pkg "a" { integrity "sha512-A" }
K_pkga ==
    [name |-> S_pkg, entries |-> <<Arg(KStr(T_a))>>,
     children |-> <<Leaf(S_integrity, KStr(T_sha512_A))>>]
\* pkg "A" { version "2.1.0" }
K_pkgA ==
    [name |-> S_pkg, entries |-> <<Arg(KStr(T_A))>>,
     children |-> <<Leaf(S_version, KStr(T_2_1_0))>>]
\* pkg "a" x="c" "b" { version 1; dev-dependencies { c "*" } }
K_pkgAB ==
    [name |-> S_pkg,
     entries |-> <<Arg(KStr(T_a)), Prop(T_x, KStr(T_c)), Arg(KStr(T_b))>>,
     children |-> <<Leaf(S_version, KInt(Num(0, 1))),
                    [name |-> S_dev_dependencies, entries |-> <<>>,
                     children |-> <<Leaf(T_c, KStr(S_star))>>]>>]
\* pkg 7
K_pkgNoName == Leaf(S_pkg, KInt(Num(0, 7)))
\* pkg "c" { version "junk" }
K_pkgBadVersion ==
    [name |-> S_pkg, entries |-> <<Arg(KStr(T_c))>>,
     children |-> <<Leaf(S_version, KStr(T_junk))>>]

KdlNodeChoices ==
    {K_version2, K_versionNeg, K_root, K_rootArg, K_rootFull, K_pkgB, K_pkga, K_pkgA,
     K_pkgAB, K_pkgNoName, K_pkgBadVersion}

KdlInputs == SeqsUpTo(KdlNodeChoices, MaxNodes)

P_root == <<>>
P_a == <<"n", "o", "d", "e", "_", "m", "o", "d", "u", "l", "e", "s", "/", "a">>
P_A == <<"n", "o", "d", "e", "_", "m", "o", "d", "u", "l", "e", "s", "/", "A">>
P_a_b == <<"n", "o", "d", "e", "_", "m", "o", "d", "u", "l", "e", "s", "/", "a", "/", "n", "o", "d", "e", "_", "m", "o", "d", "u", "l", "e", "s", "/", "b">>
P_b == <<"n", "o", "d", "e", "_", "m", "o", "d", "u", "l", "e", "s", "/", "b">>
P_c == <<"n", "o", "d", "e", "_", "m", "o", "d", "u", "l", "e", "s", "/", "c">>
P_flat == <<"a">>

\* "": { "version": "1.0.0", "dependencies": { "b": "^1", "a": "*" } }
E_root ==
    <<P_root, NpmPackageLockEntry(None, Some(T_1_0_0), None, None,
                                  <<<<T_b, T_caret1>>, <<T_a, S_star>>>>, <<>>, <<>>, <<>>)>>
\* "node_modules/a": { "version": "1.0.0", "resolved": "https://r/a", "integrity": "sha512-A" }
E_a ==
    <<P_a, NpmPackageLockEntry(None, Some(T_1_0_0), Some(T_url_a), Some(T_sha512_A),
                               <<>>, <<>>, <<>>, <<>>)>>
\* "node_modules/A": { "version": "2.1.0" }
E_A ==
    <<P_A, NpmPackageLockEntry(None, Some(T_2_1_0), None, None, <<>>, <<>>, <<>>, <<>>)>>
\* "node_modules/a/node_modules/b": { "integrity": "sha1-B sha512-A",
\*                                    "devDependencies": { "c": "*" } }
E_a_b ==
    <<P_a_b, NpmPackageLockEntry(None, None, None, Some(T_sha1_B_sha512_A),
                                 <<>>, <<<<T_c, S_star>>>>, <<>>, <<>>)>>
\* "a": { "name": "a" }
E_flat ==
    <<P_flat, NpmPackageLockEntry(Some(T_a), None, None, None, <<>>, <<>>, <<>>, <<>>)>>
\* "node_modules/b": { "name": "x", "version": "v1.0.0" }
E_named ==
    <<P_b, NpmPackageLockEntry(Some(T_x), Some(T_v1_0_0), None, None, <<>>, <<>>, <<>>, <<>>)>>
\* "node_modules/c": { "version": "junk" }
E_badVersion ==
    <<P_c, NpmPackageLockEntry(None, Some(T_junk), None, None, <<>>, <<>>, <<>>, <<>>)>>

NpmEntryChoices == {E_root, E_a, E_A, E_a_b, E_flat, E_named, E_badVersion}

\* absent, 2, 2^63, 2^64
NpmVersionChoices == {None, Some(Num(0, 2)), Some(Num(1, 0)), Some(Num(2, 0))}

NpmInputs ==
    {[lockfileVersion |-> v, packages |-> p] :
        v \in NpmVersionChoices, p \in SeqsUpTo(NpmEntryChoices, MaxEntries)}

(***************************************************************************)
(* LockfileNode::to_package and what it calls: PackageSpec::from_str,      *)
(* Url::from_str, Nassun::resolve_from, Nassun::resolve.                   *)
(***************************************************************************)
T_at == <<"@">>
T_http == <<"h", "t", "t", "p">>
T_http_scheme == <<"h", "t", "t", "p", ":", "/", "/">>
T_https_scheme == <<"h", "t", "t", "p", "s", ":", "/", "/">>
T_git_plus == <<"g", "i", "t", "+">>
T_dot_slash == <<".", "/">>
T_dir == <<".", "/", "d">>
T_git_commit == <<"g", "i", "t", "+", "x", "#", "c">>
T_git_branch == <<"g", "i", "t", "+", "x">>
T_latest == <<"l", "a", "t", "e", "s", "t">>

\* One result of PackageSpec::from_str followed by .target().
Target(kind, name, path, committish) ==
    [kind |-> kind, name |-> name, path |-> path, committish |-> committish]

\* The results PackageSpec::from_str followed by .target() can give for the
\* specifier "<name>@<reference>": a git reference (its committish is what
\* follows "#"), a local directory, a registry package; a URL reference is
\* left open (any kind, or a parse error); an empty name is a parse error.
PackageSpecTargets(spec) ==
    LET parts == Split(spec, T_at)
        name == parts[1]
        ref == Join(Tail(parts), T_at)
        gitOf(r) == Target("Git", name, None,
                           IF Len(Split(r, <<"#">>)) > 1 THEN Some(Split(r, <<"#">>)[2]) ELSE None)
    IN  IF Len(name) = 0 THEN {Target("Err", name, None, None)}
        ELSE IF StartsWith(ref, T_git_plus) THEN {gitOf(ref)}
        ELSE IF StartsWith(ref, T_dot_slash) THEN {Target("Dir", name, Some(ref), None)}
        ELSE IF StartsWith(ref, T_http)
             THEN {Target("Err", name, None, None), Target("Npm", name, None, None),
                   Target("Dir", name, Some(ref), None), gitOf(ref),
                   Target("Git", name, None, Some(T_c))}
        ELSE {Target("Npm", name, None, None)}

\* Url::from_str: an absolute http(s) URL with a host parses, and an empty
\* path becomes "/"; anything else is an error.
UrlParse(s) ==
    LET scheme == IF StartsWith(s, T_https_scheme) THEN T_https_scheme
                  ELSE IF StartsWith(s, T_http_scheme) THEN T_http_scheme
                  ELSE <<>>
        rest == SubSeq(s, Len(scheme) + 1, Len(s))
    IN  IF Len(scheme) = 0 \/ Len(rest) = 0 \/ rest[1] = "/"
        THEN [ok |-> FALSE, val |-> <<>>]
        ELSE IF \E i \in 1..Len(rest) : rest[i] = "/"
             THEN [ok |-> TRUE, val |-> s]
             ELSE [ok |-> TRUE, val |-> s \o <<"/">>]

\* enum PackageResolution, one record shape for its three variants.
PackageResolution(kind, name, version, tarball, integrity, path, committish) ==
    [kind |-> kind, name |-> name, version |-> version, tarball |-> tarball,
     integrity |-> integrity, path |-> path, committish |-> committish]

\* The package handle a client call returns: which call made it, and from what.
Package(via, name, spec, resolution) ==
    [via |-> via, name |-> name, spec |-> spec, resolution |-> resolution]

\* Nassun::resolve_from(name, spec, resolution): synchronous, cannot fail.
resolve_from(name, spec, resolution) ==
    Package("resolve_from", name, spec, Some(resolution))

\* A match that takes the resolved string whenever there is one.
SpecString_ResolvedFirst(n) ==
    IF IsSome(n.resolved) THEN Some(n.name \o T_at \o Unwrap(n.resolved))
    ELSE IF IsSome(n.version)
         THEN Some(n.name \o T_at \o VersionToString(Unwrap(n.version)))
    ELSE None

\* A match that gives up whenever the version is absent.
SpecString_VersionRequired(n) ==
    IF IsNone(n.version) THEN None
    ELSE IF IsSome(n.resolved) /\ ~StartsWith(Unwrap(n.resolved), T_http)
         THEN Some(n.name \o T_at \o Unwrap(n.resolved))
    ELSE Some(n.name \o T_at \o VersionToString(Unwrap(n.version)))

\* The specifier to_package builds (the match on resolved and version), None
\* when there is nothing to build it from.
SpecString(n) ==
    IF IsSome(n.resolved) /\ IsSome(n.version) /\ StartsWith(Unwrap(n.resolved), T_http)
    THEN Some(n.name \o T_at \o VersionToString(Unwrap(n.version)))
    ELSE IF IsSome(n.resolved) THEN Some(n.name \o T_at \o Unwrap(n.resolved))
    ELSE IF IsSome(n.version)
         THEN Some(n.name \o T_at \o VersionToString(Unwrap(n.version)))
    ELSE None

\* What to_package has come to: kind "pending", "None" (Ok(None)), "Some"
\* (Ok(Some(package))), "Err" (with the error and what it carries), or "Live"
\* (Nassun::resolve is to be awaited).
Outcome(kind, e, detail, package) ==
    [kind |-> kind, err |-> e, detail |-> detail, package |-> package]

DirPackage(n, spec, t) ==
    Outcome("Some", "none", None,
            Some(resolve_from(n.name, spec,
                 PackageResolution("Dir", n.name, None, None, None, t.path, None))))

GitPackage(n, spec, t) ==
    IF IsSome(t.committish)
    THEN Outcome("Some", "none", None,
             Some(resolve_from(n.name, spec,
                  PackageResolution("Git", n.name, None, None, None, None, t.committish))))
    ELSE Outcome("Live", "none", None, None)

\* A registry arm that asks the client whenever the version is known.
Dispatch_NpmAlwaysLive(n, spec, t) ==
    CASE t.kind = "Dir" -> DirPackage(n, spec, t)
      [] t.kind = "Npm" ->
            IF IsNone(n.version) THEN Outcome("Err", "MissingVersion", None, None)
            ELSE Outcome("Live", "none", None, None)
      [] t.kind = "Git" -> GitPackage(n, spec, t)
      [] OTHER -> Outcome("Err", "PackageSpecError", None, None)

\* What the synchronous part of to_package does with the specifier parsed to
\* target t (the `?` on the parse, then the match on spec.target()).
Dispatch(n, spec, t) ==
    CASE t.kind = "Dir" -> DirPackage(n, spec, t)
      [] t.kind = "Npm" ->
            IF IsNone(n.version) THEN Outcome("Err", "MissingVersion", None, None)
            ELSE IF IsSome(n.resolved)
                 THEN IF ~UrlParse(Unwrap(n.resolved)).ok
                      THEN Outcome("Err", "UrlParseError", n.resolved, None)
                      ELSE Outcome("Some", "none", None,
                               Some(resolve_from(n.name, spec,
                                    PackageResolution("Npm", t.name, n.version,
                                        Some(UrlParse(Unwrap(n.resolved)).val),
                                        n.integrity, None, None))))
                 ELSE Outcome("Live", "none", None, None)
      [] t.kind = "Git" -> GitPackage(n, spec, t)
      [] OTHER -> Outcome("Err", "PackageSpecError", None, None)

(***************************************************************************)
(* The state machine. A behaviour starts from one input: a KDL document or *)
(* an npm package-lock handed to a parser, or a LockfileNode handed to     *)
(* to_package. The codec operations then apply to what the previous one    *)
(* produced: parse, serialize, parse again, serialize again.               *)
(***************************************************************************)
VARIABLES
    npm,          \* Option: the package-lock input
    kdl,          \* Option: the current KDL document (the input, or to_kdl's output)
    lockfile,     \* Option: the Lockfile the last parse returned (None on error)
    err,          \* the error the last parse returned, "none" if it succeeded
    history,      \* the codec operations applied so far, in order
    prevKdl,      \* Option: the document the previous to_kdl produced
    source,       \* Option: the Lockfile the current document was serialized from
    node,         \* Option: the LockfileNode to_package runs on
    pc,           \* to_package's position: "start", "await" or "done"
    specStr,      \* Option: the specifier to_package parsed
    target,       \* Option: the target the specifier parsed to
    resolveCalls, \* how many times Nassun::resolve was invoked
    ret           \* to_package's return value: kind "pending", "None", "Some" or "Err"

vars == <<npm, kdl, lockfile, err, history, prevKdl, source,
          node, pc, specStr, target, resolveCalls, ret>>

codecVars == <<npm, kdl, lockfile, err, history, prevKdl, source>>
packageVars == <<node, pc, specStr, target, resolveCalls, ret>>

\* The LockfileNodes to_package is tried on.
PackageNodes ==
    {LockfileNode(name, FALSE, <<name>>, resolved, version, integrity,
                  <<>>, <<>>, <<>>, <<>>) :
        name \in {T_a, T_A},
        resolved \in {None, Some(T_url_a), Some(T_http), Some(T_dir),
                      Some(T_git_commit), Some(T_git_branch), Some(T_latest)},
        version \in {None, Some(<<1, 0, 0>>)},
        integrity \in {None, Some(<<<<Sha512, T_A>>>>)}}

CodecIdle ==
    /\ lockfile = None /\ err = "none" /\ history = <<>>
    /\ prevKdl = None /\ source = None

PackageIdle ==
    /\ pc = "start" /\ specStr = None /\ target = None
    /\ resolveCalls = 0 /\ ret = Outcome("pending", "none", None, None)

Init ==
    /\ CodecIdle
    /\ PackageIdle
    /\ \/ kdl \in {Some(d) : d \in KdlInputs} /\ npm = None /\ node = None
       \/ npm \in {Some(j) : j \in NpmInputs} /\ kdl = None /\ node = None
       \/ node \in {Some(n) : n \in PackageNodes} /\ kdl = None /\ npm = None

Last(s) == s[Len(s)]

\* Lockfile::from_kdl on the current document: the input, or the output of
\* the to_kdl before.
FromKdl ==
    /\ IsSome(kdl)
    /\ Len(history) < MaxSteps
    /\ IF history = <<>> THEN TRUE ELSE Last(history) = "to_kdl"
    /\ LET r == Lockfile_from_kdl(Unwrap(kdl))
       IN  /\ lockfile' = r.val
           /\ err' = r.err
    /\ history' = Append(history, "from_kdl")
    /\ UNCHANGED <<npm, kdl, prevKdl, source>>
    /\ UNCHANGED packageVars

\* Lockfile::from_npm on the package-lock input.
FromNpm ==
    /\ IsSome(npm)
    /\ history = <<>>
    /\ LET r == Lockfile_from_npm(Unwrap(npm))
       IN  /\ lockfile' = r.val
           /\ err' = r.err
    /\ history' = Append(history, "from_npm")
    /\ UNCHANGED <<npm, kdl, prevKdl, source>>
    /\ UNCHANGED packageVars

\* Lockfile::to_kdl on the Lockfile the last parse returned.
ToKdl ==
    /\ IsSome(lockfile)
    /\ Len(history) < MaxSteps
    /\ IF history = <<>> THEN FALSE ELSE Last(history) \in {"from_kdl", "from_npm"}
    /\ kdl' = Some(Lockfile_to_kdl(Unwrap(lockfile)))
    /\ prevKdl' = IF IsSome(source) THEN kdl ELSE None
    /\ source' = lockfile
    /\ history' = Append(history, "to_kdl")
    /\ UNCHANGED <<npm, lockfile, err>>
    /\ UNCHANGED packageVars

\* LockfileNode::to_package up to its return or its await of Nassun::resolve.
ToPackage ==
    /\ IsSome(node)
    /\ pc = "start"
    /\ LET n == Unwrap(node)
           s == SpecString(n)
       IN  IF IsNone(s)
           THEN /\ ret' = Outcome("None", "none", None, None)
                /\ pc' = "done"
                /\ UNCHANGED <<specStr, target, resolveCalls>>
           ELSE \E t \in PackageSpecTargets(Unwrap(s)) :
                  LET o == Dispatch(n, Unwrap(s), t)
                  IN  /\ specStr' = s
                      /\ target' = IF t.kind = "Err" THEN None ELSE Some(t)
                      /\ IF o.kind = "Live"
                         THEN /\ resolveCalls' = resolveCalls + 1
                              /\ pc' = "await"
                              /\ UNCHANGED ret
                         ELSE /\ ret' = o
                              /\ pc' = "done"
                              /\ UNCHANGED resolveCalls
    /\ UNCHANGED node
    /\ UNCHANGED codecVars

\* The awaited Nassun::resolve(spec) returns: a package, or an error that
\* to_package propagates.
ResolveCompletes ==
    /\ pc = "await"
    /\ \E ok \in BOOLEAN :
          ret' = IF ok
                 THEN Outcome("Some", "none", None,
                              Some(Package("resolve", Unwrap(node).name, Unwrap(specStr), None)))
                 ELSE Outcome("Err", "ResolveError", None, None)
    /\ pc' = "done"
    /\ UNCHANGED <<node, specStr, target, resolveCalls>>
    /\ UNCHANGED codecVars

Next == FromKdl \/ FromNpm \/ ToKdl \/ ToPackage \/ ResolveCompletes

Spec == Init /\ [][Next]_vars

(***************************************************************************)
(* What the claims speak of.                                               *)
(***************************************************************************)
AfterOp(op) == history # <<>> /\ Last(history) = op

\* from_kdl has just been applied to to_kdl(source).
RoundTripDone == AfterOp("from_kdl") /\ IsSome(source)

\* A root as the data model describes it.
ValidRoot(r) == r.is_root /\ r.name = <<>> /\ r.path = <<>>

\* A non-root entry stored under its joined path and named by its last segment.
ValidEntry(key, n) ==
    /\ ~n.is_root
    /\ Len(n.path) >= 1
    /\ UniCaseEq(n.name, n.path[Len(n.path)])
    /\ UniCaseEq(key, PathStr(n))

ValidLockfile(l) ==
    /\ ValidRoot(l.root)
    /\ \A i \in 1..Len(l.packages) : ValidEntry(l.packages[i][1], l.packages[i][2])

\* What the document format carries: a version within i64, no resolved or
\* integrity on the root, an entry's integrity only beside its resolved.
Carried(l) ==
    /\ FitsI64(l.version)
    /\ IsNone(l.root.resolved) /\ IsNone(l.root.integrity)
    /\ \A i \in 1..Len(l.packages) :
          IsSome(l.packages[i][2].integrity) => IsSome(l.packages[i][2].resolved)

Perms(n) == {f \in [1..n -> 1..n] : \A i, j \in 1..n : f[i] = f[j] => i = j}
Permute(seq, f) == [i \in 1..Len(seq) |-> seq[f[i]]]

DepFields ==
    {"dependencies", "dev_dependencies", "peer_dependencies", "optional_dependencies"}

\* The nodes a Lockfile holds: the root and every entry.
NodesOf(l) == {l.root} \cup {l.packages[i][2] : i \in 1..Len(l.packages)}

\* The parse results of the entries of the input the last parse read, in
\* input order: the pkg nodes of the document, or the members of the
\* deserialized `packages` mapping.
InputResults ==
    IF AfterOp("from_kdl") THEN Map(Filter(Unwrap(kdl), IsPkg), ParsePkg)
    ELSE Map(Val(Deserialize(Unwrap(npm))).packages, ParseNpmEntry)

AfterParse == AfterOp("from_kdl") \/ AfterOp("from_npm")

C2_Idempotent ==
    (AfterOp("to_kdl") /\ IsSome(prevKdl)) => kdl = prevKdl

\* C3: a Lockfile returned by from_kdl or from_npm holds its root only in
\* `root`: no entry of `packages` has is_root = true or the empty key.
C3_RootOnlyInRootField ==
    IsSome(lockfile) =>
        \A i \in 1..Len(Unwrap(lockfile).packages) :
            /\ ~Unwrap(lockfile).packages[i][2].is_root
            /\ Unwrap(lockfile).packages[i][1] # <<>>

\* The document has no top-level root node; the package-lock deserializes
\* and its `packages` has no "" key.
KdlHasNoRoot == IsNone(DocGet(Unwrap(kdl), S_root))
NpmHasNoRoot ==
    /\ Deserialize(Unwrap(npm)).ok
    /\ IsNone(MapGet(Val(Deserialize(Unwrap(npm))).packages, <<>>, StrEq))
KdlVersionInRange ==
    LET v == AndThen(DocGetArg(Unwrap(kdl), S_lockfile_version), AsI64)
    IN  IsNone(v) \/ FitsU64(Unwrap(v))

\* C4 as stated: without a root the parse returns the missing-root error,
\* whatever else the input contains.
C4_MissingRootWhateverElse ==
    /\ (AfterOp("from_kdl") /\ KdlHasNoRoot) => err = "KdlLockMissingRoot"
    /\ (AfterOp("from_npm") /\ NpmHasNoRoot) => err = "NpmLockMissingRoot"

\* C4 (amended): without a root the parse returns the missing-root error
\* when every pkg node or entry parses and the format version is in range;
\* otherwise it returns the error of the first failing pkg node or entry, or
\* else InvalidLockfileVersion.
C4_MissingRoot ==
    /\ (AfterOp("from_kdl") /\ KdlHasNoRoot) =>
          err = IF FirstErr(InputResults) # "none" THEN FirstErr(InputResults)
                ELSE IF ~KdlVersionInRange THEN "InvalidLockfileVersion"
                ELSE "KdlLockMissingRoot"
    /\ (AfterOp("from_npm") /\ NpmHasNoRoot) =>
          err = IF FirstErr(InputResults) # "none" THEN FirstErr(InputResults)
                ELSE "NpmLockMissingRoot"

\* C4 witness: a document with pkg nodes that parse, a version in range and
\* no root has been refused with KdlLockMissingRoot.
C4_Witness ==
    /\ AfterOp("from_kdl") /\ KdlHasNoRoot
    /\ Len(InputResults) >= 1 /\ FirstErr(InputResults) = "none"
    /\ IsSome(DocGetArg(Unwrap(kdl), S_lockfile_version))
    /\ err = "KdlLockMissingRoot"

NpmVersion == Unwrap(npm).lockfileVersion
KdlVersion == AndThen(DocGetArg(Unwrap(kdl), S_lockfile_version), AsI64)

\* C5: a format version that does not fit u64 fails the parse with
\* InvalidLockfileVersion, in from_kdl (when every pkg node parses) and in
\* from_npm; a stored version is the input value, never a wrapped one; an
\* absent value gives 1 (document) or 3 (package-lock).
C5_VersionRangeCheck ==
    /\ (AfterOp("from_npm") /\ IsSome(NpmVersion) /\ ~FitsU64(Unwrap(NpmVersion)))
          => err = "InvalidLockfileVersion"
    /\ (AfterOp("from_kdl") /\ IsSome(KdlVersion) /\ ~FitsU64(Unwrap(KdlVersion))
            /\ FirstErr(InputResults) = "none")
          => err = "InvalidLockfileVersion"
    /\ (AfterOp("from_npm") /\ IsSome(lockfile))
          => Unwrap(lockfile).version =
                IF IsSome(NpmVersion) THEN Unwrap(NpmVersion) ELSE Num(0, 3)
    /\ (AfterOp("from_kdl") /\ IsSome(lockfile))
          => Unwrap(lockfile).version =
                IF IsSome(KdlVersion) THEN Unwrap(KdlVersion) ELSE Num(0, 1)

\* The input entries whose joined path key equals k ignoring case.
SameKey(pairs, k) == {i \in 1..Len(pairs) : UniCaseEq(pairs[i][1], k)}
MaxOf(S) == CHOOSE i \in S : \A j \in S : j <= i

\* C6: when input entries have joined path keys equal ignoring case,
\* `packages` holds exactly one entry for the key, its value is the last such
\* input entry, and the collision raises no error: the parse fails only if
\* an entry, the version or the root fails.
C6_LastWriteWins ==
    /\ (AfterParse /\ IsSome(lockfile)) =>
          LET pairs == Map(InputResults, KeyedNode)
              stored == Unwrap(lockfile).packages
          IN  \A i \in 1..Len(pairs) :
                /\ Cardinality(SameKey(stored, pairs[i][1])) = 1
                /\ \A j \in SameKey(stored, pairs[i][1]) :
                      stored[j][2] = pairs[MaxOf(SameKey(pairs, pairs[i][1]))][2]
    /\ (AfterOp("from_kdl") /\ FirstErr(InputResults) = "none"
            /\ KdlVersionInRange /\ ~KdlHasNoRoot)
          => (err = "none" \/ err = LockfileNode_from_kdl(Unwrap(DocGet(Unwrap(kdl), S_root)), TRUE).err)
    /\ (AfterOp("from_npm") /\ Deserialize(Unwrap(npm)).ok
            /\ FirstErr(InputResults) = "none" /\ ~NpmHasNoRoot)
          => err = "none"

\* C6 witness: a parse of an input with two entries whose keys differ only by
\* case, holding different values, has stored one entry.
C6_Witness ==
    /\ AfterParse /\ IsSome(lockfile)
    /\ LET pairs == Map(InputResults, KeyedNode)
       IN  \E i, j \in 1..Len(pairs) :
              /\ i < j
              /\ UniCaseEq(pairs[i][1], pairs[j][1])
              /\ pairs[i][1] # pairs[j][1]
              /\ pairs[i][2] # pairs[j][2]
    /\ Len(Unwrap(lockfile).packages) = 1

\* The key a pkg node of a document stands for: its string arguments joined.
NodeKey(n) == Join(Map(Filter(n.entries, IsStringArg), EntryString), NodeModulesSep)
Ascending(seq, Less(_, _)) == \A i \in 1..(Len(seq) - 1) : Less(seq[i], seq[i + 1])
NodeKeyLess(a, b) == UniCaseLess(NodeKey(a), NodeKey(b))
IsDepBlock(n) ==
    n.name \in {S_dependencies, S_dev_dependencies, S_peer_dependencies,
                S_optional_dependencies}

\* C7: to_kdl's output does not depend on insertion order: every reordering
\* of the entries, and of any dependency map of any node, serializes to the
\* same document; pkg nodes ascend by case-insensitive path key, and the
\* children of every dependency block ascend by name.
C7_DeterministicOrder ==
    AfterOp("to_kdl") =>
        LET l == Unwrap(source)
            doc == Unwrap(kdl)
        IN  /\ \A f \in Perms(Len(l.packages)) :
                  Lockfile_to_kdl([l EXCEPT !.packages = Permute(@, f)]) = doc
            /\ \A n \in NodesOf(l) : \A field \in DepFields :
                  \A f \in Perms(Len(n[field])) :
                      LockfileNode_to_kdl([n EXCEPT ![field] = Permute(@, f)])
                          = LockfileNode_to_kdl(n)
            /\ Ascending(Filter(doc, IsPkg), NodeKeyLess)
            /\ \A i \in 1..Len(doc) :
                  \A c \in 1..Len(doc[i].children) :
                      IsDepBlock(doc[i].children[c])
                          => Ascending(doc[i].children[c].children, NameLess)

\* C7 witness: to_kdl has serialized a Lockfile whose entries and whose
\* dependencies were inserted out of order.
C7_Witness ==
    /\ AfterOp("to_kdl")
    /\ ~Ascending(Unwrap(source).packages, KeyLess)
    /\ \E n \in NodesOf(Unwrap(source)) :
          Len(n.dependencies) >= 2 /\ ~StrLess(n.dependencies[1][1], n.dependencies[2][1])

\* to_package has run on the node, at least up to its await.
PackageRun == IsSome(node) /\ pc # "start"

\* The two fallback cases: a registry target with version present and
\* resolved absent, or a git target that names no commit.
LiveCase ==
    /\ IsSome(target)
    /\ \/ /\ Unwrap(target).kind = "Npm"
          /\ IsSome(Unwrap(node).version)
          /\ IsNone(Unwrap(node).resolved)
       \/ /\ Unwrap(target).kind = "Git"
          /\ IsNone(Unwrap(target).committish)

\* C8: in one to_package call Nassun::resolve is invoked at most once, and
\* exactly in the two fallback cases; on every other path (Ok(None), a
\* directory target, a registry target with resolved present, a git target
\* with a commit, an error before the lookup) it is never invoked.
C8_LiveLookupOnlyInFallbacks ==
    /\ resolveCalls <= 1
    /\ pc = "start" => resolveCalls = 0
    /\ PackageRun => (resolveCalls = 1 <=> LiveCase)

\* C8 witness: to_package has returned the package of a live lookup made for
\* a registry target with version present and resolved absent.
C8_Witness ==
    /\ PackageRun /\ pc = "done"
    /\ resolveCalls = 1
    /\ Unwrap(target).kind = "Npm"
    /\ ret.kind = "Some" /\ Unwrap(ret.package).via = "resolve"

NothingKnown == IsNone(Unwrap(node).resolved) /\ IsNone(Unwrap(node).version)

\* C9: to_package returns Ok(None) if and only if resolved and version are
\* both absent, and then without parsing a specifier or calling the client;
\* with either field present it returns Ok(Some(package)) or an error.
C9_NoPackageIffNothingKnown ==
    /\ (PackageRun /\ pc = "done") => (ret.kind = "None" <=> NothingKnown)
    /\ (PackageRun /\ NothingKnown) =>
          /\ pc = "done" /\ ret.kind = "None"
          /\ specStr = None /\ target = None /\ resolveCalls = 0
    /\ (PackageRun /\ pc = "done" /\ ~NothingKnown) =>
          \/ ret.kind = "Some" /\ IsSome(ret.package)
          \/ ret.kind = "Err" /\ ret.err # "none"

\* C9 witness: to_package has returned Ok(None).
C9_Witness ==
    PackageRun /\ pc = "done" /\ ret.kind = "None" /\ NothingKnown

\* C10: for an entry whose resolved is an http(s) URL and whose version is
\* present, the specifier is name@version and the package returned comes from
\* resolve_from with the registry resolution made of the specifier's name,
\* the version, the URL parsed from resolved, and the integrity; a registry
\* target with version absent fails with MissingVersion; a registry target
\* whose resolved does not parse as a URL fails with UrlParseError carrying
\* that string.
C10_ExactRegistry ==
    PackageRun =>
        LET n == Unwrap(node)
        IN  /\ (IsSome(n.resolved) /\ IsSome(n.version)
                    /\ StartsWith(Unwrap(n.resolved), T_http)
                    /\ UrlParse(Unwrap(n.resolved)).ok) =>
                  /\ specStr = Some(n.name \o T_at \o VersionToString(Unwrap(n.version)))
                  /\ pc = "done" /\ ret.kind = "Some"
                  /\ ret.package =
                        Some(Package("resolve_from", n.name, Unwrap(specStr),
                             Some(PackageResolution("Npm", Unwrap(target).name, n.version,
                                      Some(UrlParse(Unwrap(n.resolved)).val),
                                      n.integrity, None, None))))
            /\ (IsSome(target) /\ Unwrap(target).kind = "Npm" /\ IsNone(n.version)) =>
                  /\ pc = "done" /\ ret.kind = "Err" /\ ret.err = "MissingVersion"
            /\ (IsSome(target) /\ Unwrap(target).kind = "Npm" /\ IsSome(n.version)
                    /\ IsSome(n.resolved) /\ ~UrlParse(Unwrap(n.resolved)).ok) =>
                  /\ pc = "done" /\ ret.kind = "Err"
                  /\ ret.err = "UrlParseError" /\ ret.detail = n.resolved

\* C10 witness: to_package has returned the exact registry package of an
\* entry with an https URL, a version and an integrity.
C10_Witness ==
    /\ PackageRun /\ pc = "done"
    /\ IsSome(Unwrap(node).integrity) /\ IsSome(Unwrap(node).version)
    /\ Unwrap(node).resolved = Some(T_url_a)
    /\ ret.kind = "Some"
    /\ Unwrap(ret.package).via = "resolve_from"
    /\ Unwrap(Unwrap(ret.package).resolution).kind = "Npm"
    /\ Unwrap(Unwrap(ret.package).resolution).tarball = Some(T_url_a)

\* The members of the deserialized `packages` mapping that parse to node n.
NpmOrigins(n) ==
    LET members == Val(Deserialize(Unwrap(npm))).packages
    IN  {i \in 1..Len(members) :
            ParseNpmEntry(members[i]).ok /\ Val(ParseNpmEntry(members[i])) = n}

NonRootEntries(l) == {n \in {l.packages[i][2] : i \in 1..Len(l.packages)} : ~n.is_root}

NameIsLastSegment(n) == Len(n.path) >= 1 /\ UniCaseEq(n.name, n.path[Len(n.path)])

\* C11 as stated: every non-root entry of a Lockfile returned by from_kdl or
\* from_npm has a path of at least one segment whose last segment equals the
\* entry's name ignoring case, npm entries with a `name` field included.
C11_NameIsLastSegment ==
    (AfterParse /\ IsSome(lockfile)) =>
        \A n \in NonRootEntries(Unwrap(lockfile)) : NameIsLastSegment(n)

\* C11 (amended): every non-root entry has a path of at least one segment;
\* its last segment equals the name ignoring case for every entry of
\* from_kdl and for every npm entry without a `name` field; an npm entry with
\* a `name` field is named by that field, whatever its path.
C11_EntryPathShape ==
    (AfterParse /\ IsSome(lockfile)) =>
        \A n \in NonRootEntries(Unwrap(lockfile)) :
            /\ Len(n.path) >= 1
            /\ AfterOp("from_kdl") => NameIsLastSegment(n)
            /\ AfterOp("from_npm") =>
                  /\ NpmOrigins(n) # {}
                  /\ \A i \in NpmOrigins(n) :
                        LET e == Val(Deserialize(Unwrap(npm))).packages[i][2]
                        IN  IF IsSome(e.name) THEN n.name = Unwrap(e.name)
                            ELSE NameIsLastSegment(n)

\* C11 witness: from_npm has returned a Lockfile holding a nested entry named
\* by its last segment and an entry whose `name` field differs from its path.
C11_Witness ==
    /\ AfterOp("from_npm") /\ IsSome(lockfile)
    /\ \E n \in NonRootEntries(Unwrap(lockfile)) :
          Len(n.path) = 2 /\ NameIsLastSegment(n)
    /\ \E n \in NonRootEntries(Unwrap(lockfile)) :
          Len(n.path) >= 1 /\ ~NameIsLastSegment(n)

\* "a/node_modules/b"
T_a_nm_b == <<"a", "/", "n", "o", "d", "e", "_", "m", "o", "d", "u", "l", "e", "s", "/", "b">>

\* The entries of `packages` whose path is <<a, b>>.
NestedEntries(l) ==
    {i \in 1..Len(l.packages) : l.packages[i][2].path = <<T_a, T_b>>}

\* C12: every entry of a Lockfile returned by from_kdl or from_npm is stored
\* under the key that joins its own path with "/node_modules/" (keys compare
\* ignoring case); from_npm turns the install path
\* "node_modules/a/node_modules/b" into path [a, b] under the key
\* "a/node_modules/b", and sets is_root exactly when the derived path is empty.
C12_CanonicalKey ==
    (AfterParse /\ IsSome(lockfile)) =>
        LET l == Unwrap(lockfile)
        IN  /\ \A i \in 1..Len(l.packages) :
                  UniCaseEq(l.packages[i][1],
                            Join(l.packages[i][2].path, NodeModulesSep))
            /\ AfterOp("from_npm") =>
                  /\ \A n \in NodesOf(l) : n.is_root <=> (n.path = <<>>)
                  /\ (\E i \in 1..Len(Unwrap(npm).packages) :
                          Unwrap(npm).packages[i][1] = P_a_b)
                        => \E i \in NestedEntries(l) : l.packages[i][1] = T_a_nm_b

\* C12 witness: from_npm has stored the entry of
\* "node_modules/a/node_modules/b" under "a/node_modules/b" with path [a, b],
\* in a Lockfile whose root has the empty path.
C12_Witness ==
    /\ AfterOp("from_npm") /\ IsSome(lockfile)
    /\ \E i \in NestedEntries(Unwrap(lockfile)) :
          /\ Unwrap(lockfile).packages[i][1] = T_a_nm_b
          /\ ~Unwrap(lockfile).packages[i][2].is_root
    /\ Unwrap(lockfile).root.is_root /\ Unwrap(lockfile).root.path = <<>>

\* C13: for every document with a root node, whatever positional arguments
\* the node carries, from_kdl returns a root with is_root = true, an empty
\* name and an empty path.
C13_RootNodeParse ==
    (AfterOp("from_kdl") /\ IsSome(lockfile)) =>
        /\ Unwrap(lockfile).root.is_root
        /\ Unwrap(lockfile).root.name = <<>>
        /\ Unwrap(lockfile).root.path = <<>>

====
